---- MODULE Spec2Model ----
(***************************************************************************)
(* Pool registry and transaction helper of qx_rs_server_sqlx (src/pool.rs, *)
(* src/mysql.rs).  Tasks call _setup, _get_conn, get_trans, commit,        *)
(* rollback and the query executor concurrently; every await of the code  *)
(* is a point where another task may take a step.                          *)
(***************************************************************************)
EXTENDS Integers, FiniteSets, Sequences, TLC

\* Bounds of the model.
NumTasks == 2
MaxPools == 2
MaxConnects == 2
\* _setup, _get_conn and row-returning executor calls issued in one run,
\* transactions begun in one run.
MaxCalls == 4
MaxTx == 1
\* Rows a statement yields.
MaxRows == 2

Tasks == 1..NumTasks
PoolIds == 1..MaxPools
Conns == 1..MaxConnects

\* The identifiers: the DEFAULT sentinel and one named database.
DEFAULT == "default"
DBs == {DEFAULT, "reporting"}

\* map.get(..) == None, and the tokio Mutex with no owner.
NoPool == 0
NoTask == 0

Handles == PoolIds \X Conns

\* The five keys _setup reads, in the order it reads them, under the prefix
\* "MYSQL" for DEFAULT and "MYSQL.<D>" for another identifier D.
Keys == <<"URL", "DATABASE", "USER_NAME", "PASSWORD", "MAX_CONNECTS">>

\* What the configuration source answers for the keys of one identifier:
\* bad is the first key for which env::str / env::val::<u32> fails (0: all
\* five are read), max is the parsed MAX_CONNECTS, urlok says whether
\* MySqlConnectOptions::from_str accepts the interpolated connection
\* string.  What follows the first failed read is never looked at.
Envs ==
    { [bad |-> b, max |-> 1, urlok |-> TRUE] : b \in 1..Len(Keys) }
    \cup { [bad |-> 0, max |-> m, urlok |-> u] :
              m \in 1..MaxConnects, u \in BOOLEAN }

\* Mutant of FirstBadKey: a failed read of MAX_CONNECTS is not propagated.
FirstBadKeyIgnoreMax(e) == IF e.bad = Len(Keys) THEN 0 ELSE e.bad

\* Index of the first key whose read fails (the `?` that returns), 0 if none.
FirstBadKey(e) == e.bad

\* Messages of the Error::Database values the code builds.
ErrGetConnAbsent == "_get_conn failed"
ErrGetConnAcquire == "_get_conn acquire failed:"
ErrSetupFromStr == "_setup from_str failed:"
ErrSetupConnect == "_setup connect_with failed:"
ErrGetTrans == "_get_trans failed:"
ErrCommit == "commit failed:"
ErrRollback == "rollback failed:"
ErrExec == "exec failed:"
ErrExecArr == "exec_arr failed:"
ErrExecOne == "exec_one failed:"
ErrExecOptOne == "exec_opt_one failed:"
\* The error env::str / env::val propagate through `?`.
ErrEnv == "env error"

VARIABLES
    POOLS,       \* the registry: identifier -> pool id, NoPool if absent
    lockHolder,  \* the task holding the guard of the POOLS mutex, or NoTask
    nPools,      \* number of pools built so far
    poolMax,     \* pool id -> max_connections it was built with (0: not built)
    poolDb,      \* pool id -> identifier whose _setup built it ("": not built)
    leased,      \* pool id -> connections of the pool that are leased
    held,        \* task -> the PoolConnection handles it owns
    tx,          \* handle -> state of the Transaction value on the connection
    txCalls,     \* handle -> commit/rollback calls made on that Transaction
    pc,          \* task -> where it is suspended
    arg,         \* task -> identifier of the call in flight
    pend,        \* task -> pool looked up (_get_conn) or built (_setup)
    cfgMax,      \* task -> max_connects read by the _setup in flight
    lastSetup,   \* identifier -> pool of the latest _setup that returned Ok
    nCalls,      \* _setup and _get_conn calls issued so far
    nTx,         \* transactions begun so far
    ret          \* the value the latest step returned to a caller

vars == <<POOLS, lockHolder, nPools, poolMax, poolDb, leased, held, tx, txCalls,
          pc, arg, pend, cfgMax, lastSetup, nCalls, nTx, ret>>

poolVars == <<nPools, poolMax, poolDb>>
budgetVars == <<nCalls, nTx>>
txVars == <<tx, txCalls>>
callVars == <<arg, pend, cfgMax>>

\* A returned value: the operation, its result (Ok or the error message),
\* whether the call did pool or network I/O, the tracing::error! lines it
\* emitted, and the rows in an Ok of the query executor (a Vec as the
\* sequence of its rows, an Option as <<>> or <<row>>, a row as <<row>>).
\* stmt remembers what the driver did with the statement of the call.
RetOut(op, val, io, logged, out, stmt) ==
    [op |-> op, val |-> val, io |-> io, logged |-> logged, out |-> out,
     stmt |-> stmt]

\* No statement was run.
NoStmt == [ok |-> TRUE, n |-> -1]

\* A returned value that carries no rows.
Ret(op, val, io, logged) == RetOut(op, val, io, logged, <<>>, NoStmt)

\* The step returned nothing: a call was issued or is suspended again, or a
\* value was dropped.
NoRet == Ret("none", "Ok", FALSE, 0)

Init ==
    /\ POOLS = [d \in DBs |-> NoPool]
    /\ lockHolder = NoTask
    /\ nPools = 0
    /\ poolMax = [p \in PoolIds |-> 0]
    /\ poolDb = [p \in PoolIds |-> ""]
    /\ leased = [p \in PoolIds |-> {}]
    /\ held = [t \in Tasks |-> {}]
    /\ tx = [h \in Handles |-> "None"]
    /\ txCalls = [h \in Handles |-> 0]
    /\ pc = [t \in Tasks |-> "idle"]
    /\ arg = [t \in Tasks |-> DEFAULT]
    /\ pend = [t \in Tasks |-> NoPool]
    /\ cfgMax = [t \in Tasks |-> 0]
    /\ lastSetup = [d \in DBs |-> NoPool]
    /\ nCalls = 0
    /\ nTx = 0
    /\ ret = NoRet

(***************************************************************************)
(* The pool registry: _get_conn and _setup.                                *)
(***************************************************************************)

\* Mutant of CanLock: the lock is granted while another guard is alive.
CanLockAlways == TRUE

\* POOLS.lock().await completes only while no guard is alive.
CanLock == lockHolder = NoTask

\* Mutant of Free: a leased connection is handed out again.
FreeAny(p) == {c \in Conns : c <= poolMax[p]}

\* Mutant of Free: the connections out of every pool built for the same
\* identifier count against the pool.
FreePerDb(p) ==
    {c \in Conns : c <= poolMax[p]}
        \ UNION {leased[q] : q \in {r \in PoolIds : poolDb[r] = poolDb[p]}}

\* Mutant of Free: max_connections is not applied to the pool.
FreeNoLimit(p) == {c \in Conns : poolMax[p] > 0} \ leased[p]

\* The connections of pool p that pool.acquire() may hand out: the pool
\* opens at most max_connections of them and never leases one twice.
Free(p) == {c \in Conns : c <= poolMax[p]} \ leased[p]

\* Mutant of CanGrant: a suspended caller is never woken.
CanGrantFirstPoll(t) == pc[t] = "acquire" /\ Free(pend[t]) # {}

\* pool.acquire() resolves for a caller polled for the first time and for a
\* suspended one, as soon as a connection is free.
CanGrant(t) == pc[t] \in {"acquire", "wait"} /\ Free(pend[t]) # {}

\* Mutant of Lookup: an absent identifier falls back to the DEFAULT pool.
LookupOrDefault(map, d) == IF map[d] = NoPool THEN map[DEFAULT] ELSE map[d]

\* map.get(which_database): the pool under the key, NoPool without one.
Lookup(map, d) == map[d]

\* Mutant of MapInsert: the insert drops the entries of the other keys.
MapInsertFresh(map, k, v) == [d \in DBs |-> IF d = k THEN v ELSE NoPool]

\* Mutant of MapInsert: the pool that was connected later stays.
MapInsertNewest(map, k, v) == [map EXCEPT ![k] = IF @ > v THEN @ ELSE v]

\* Mutant of MapInsert: an existing entry is kept (entry().or_insert()).
MapInsertIfAbsent(map, k, v) ==
    IF map[k] = NoPool THEN [map EXCEPT ![k] = v] ELSE map

\* HashMap::insert: the new value replaces the one under the key.
MapInsert(map, k, v) == [map EXCEPT ![k] = v]

\* The call of task t returns: its frame (identifier, pool, max_connects) is
\* gone.
Return(t) ==
    /\ pc' = [pc EXCEPT ![t] = "idle"]
    /\ arg' = [arg EXCEPT ![t] = DEFAULT]
    /\ pend' = [pend EXCEPT ![t] = NoPool]
    /\ cfgMax' = [cfgMax EXCEPT ![t] = 0]

\* A task calls _get_conn(d) and reaches POOLS.lock().await.
GetConnCall(t, d) ==
    /\ pc[t] = "idle"
    /\ nCalls < MaxCalls
    /\ nCalls' = nCalls + 1
    /\ pc' = [pc EXCEPT ![t] = "gc_lock"]
    /\ arg' = [arg EXCEPT ![t] = d]
    /\ ret' = NoRet
    /\ UNCHANGED <<POOLS, lockHolder, poolVars, leased, held, txVars, pend,
                   cfgMax, lastSetup, nTx>>

\* The lock is taken and the map read.  Without an entry the call returns
\* at once (the guard is dropped with it); with one it goes on into
\* pool.acquire().await, the guard `map` still alive.
GetConnLock(t) ==
    /\ pc[t] = "gc_lock"
    /\ CanLock
    /\ IF Lookup(POOLS, arg[t]) = NoPool
       THEN /\ Return(t)
            /\ ret' = Ret("get_conn", ErrGetConnAbsent, FALSE, 0)
            /\ UNCHANGED lockHolder
       ELSE /\ lockHolder' = t
            /\ pend' = [pend EXCEPT ![t] = Lookup(POOLS, arg[t])]
            /\ pc' = [pc EXCEPT ![t] = "acquire"]
            /\ ret' = NoRet
            /\ UNCHANGED <<arg, cfgMax>>
    /\ UNCHANGED <<POOLS, poolVars, leased, held, txVars, lastSetup,
                   budgetVars>>

\* pool.acquire() finds every connection leased: the task is suspended.
AcquireSuspend(t) ==
    /\ pc[t] = "acquire"
    /\ Free(pend[t]) = {}
    /\ pc' = [pc EXCEPT ![t] = "wait"]
    /\ ret' = NoRet
    /\ UNCHANGED <<POOLS, lockHolder, poolVars, leased, held, txVars,
                   callVars, lastSetup, budgetVars>>

\* pool.acquire() yields a connection; _get_conn returns Ok(con) and its
\* guard is dropped.
AcquireGrant(t) ==
    /\ CanGrant(t)
    /\ \E c \in Free(pend[t]) :
          /\ leased' = [leased EXCEPT ![pend[t]] = @ \cup {c}]
          /\ held' = [held EXCEPT ![t] = @ \cup {<<pend[t], c>>}]
          /\ tx' = [tx EXCEPT ![<<pend[t], c>>] = "None"]
          /\ txCalls' = [txCalls EXCEPT ![<<pend[t], c>>] = 0]
    /\ lockHolder' = NoTask
    /\ Return(t)
    /\ ret' = Ret("get_conn", "Ok", TRUE, 0)
    /\ UNCHANGED <<POOLS, poolVars, lastSetup, budgetVars>>

\* Mutant of AcquireErr: the error return leaves the registry locked.
AcquireErrKeepsGuard(t) ==
    /\ pc[t] \in {"acquire", "wait"}
    /\ Return(t)
    /\ ret' = Ret("get_conn", ErrGetConnAcquire, TRUE, 1)
    /\ UNCHANGED <<POOLS, lockHolder, poolVars, leased, held, txVars,
                   lastSetup, budgetVars>>

\* pool.acquire() fails: the pool's acquisition timeout elapsed, or the
\* connection could not be opened.  The error is logged and returned.
AcquireErr(t) ==
    /\ pc[t] \in {"acquire", "wait"}
    /\ lockHolder' = NoTask
    /\ Return(t)
    /\ ret' = Ret("get_conn", ErrGetConnAcquire, TRUE, 1)
    /\ UNCHANGED <<POOLS, poolVars, leased, held, txVars, lastSetup,
                   budgetVars>>

\* Mutant of SetupCall: the registry is locked before the pool is
\* connected.
SetupCallLocksFirst(t, d, e) ==
    /\ pc[t] = "idle"
    /\ nCalls < MaxCalls
    /\ nCalls' = nCalls + 1
    /\ IF FirstBadKey(e) # 0
       THEN /\ ret' = Ret("setup", ErrEnv, FALSE, 0)
            /\ UNCHANGED <<pc, arg, cfgMax, lockHolder>>
       ELSE IF ~e.urlok
       THEN /\ ret' = Ret("setup", ErrSetupFromStr, FALSE, 1)
            /\ UNCHANGED <<pc, arg, cfgMax, lockHolder>>
       ELSE /\ CanLock
            /\ lockHolder' = t
            /\ pc' = [pc EXCEPT ![t] = "connect"]
            /\ arg' = [arg EXCEPT ![t] = d]
            /\ cfgMax' = [cfgMax EXCEPT ![t] = e.max]
            /\ ret' = NoRet
    /\ UNCHANGED <<POOLS, poolVars, leased, held, txVars, pend, lastSetup,
                   nTx>>

\* _setup(d) up to its first await: the five reads, the connection string,
\* MySqlConnectOptions::from_str.
SetupCall(t, d, e) ==
    /\ pc[t] = "idle"
    /\ nCalls < MaxCalls
    /\ nCalls' = nCalls + 1
    /\ IF FirstBadKey(e) # 0
       THEN /\ ret' = Ret("setup", ErrEnv, FALSE, 0)
            /\ UNCHANGED <<pc, arg, cfgMax>>
       ELSE IF ~e.urlok
       THEN /\ ret' = Ret("setup", ErrSetupFromStr, FALSE, 1)
            /\ UNCHANGED <<pc, arg, cfgMax>>
       ELSE /\ pc' = [pc EXCEPT ![t] = "connect"]
            /\ arg' = [arg EXCEPT ![t] = d]
            /\ cfgMax' = [cfgMax EXCEPT ![t] = e.max]
            /\ ret' = NoRet
    /\ UNCHANGED <<POOLS, lockHolder, poolVars, leased, held, txVars, pend,
                   lastSetup, nTx>>

\* Mutant of ConnectOk: the pool is put into the registry as soon as it is
\* connected, without the lock, ahead of the insert.
ConnectOkPublishes(t) ==
    /\ pc[t] = "connect"
    /\ nPools < MaxPools
    /\ nPools' = nPools + 1
    /\ poolMax' = [poolMax EXCEPT ![nPools + 1] = cfgMax[t]]
    /\ poolDb' = [poolDb EXCEPT ![nPools + 1] = arg[t]]
    /\ pend' = [pend EXCEPT ![t] = nPools + 1]
    /\ cfgMax' = [cfgMax EXCEPT ![t] = 0]
    /\ pc' = [pc EXCEPT ![t] = "su_lock"]
    /\ POOLS' = [POOLS EXCEPT ![arg[t]] = nPools + 1]
    /\ ret' = NoRet
    /\ UNCHANGED <<lockHolder, leased, held, txVars, arg, lastSetup,
                   budgetVars>>

\* connect_with(..).await establishes the pool.
ConnectOk(t) ==
    /\ pc[t] = "connect"
    /\ nPools < MaxPools
    /\ nPools' = nPools + 1
    /\ poolMax' = [poolMax EXCEPT ![nPools + 1] = cfgMax[t]]
    /\ poolDb' = [poolDb EXCEPT ![nPools + 1] = arg[t]]
    /\ pend' = [pend EXCEPT ![t] = nPools + 1]
    /\ cfgMax' = [cfgMax EXCEPT ![t] = 0]
    /\ pc' = [pc EXCEPT ![t] = "su_lock"]
    /\ ret' = NoRet
    /\ UNCHANGED <<POOLS, lockHolder, leased, held, txVars, arg, lastSetup, budgetVars>>

\* connect_with(..).await fails: logged and returned, no pool.
ConnectErr(t) ==
    /\ pc[t] = "connect"
    /\ Return(t)
    /\ ret' = Ret("setup", ErrSetupConnect, TRUE, 1)
    /\ UNCHANGED <<POOLS, lockHolder, poolVars, leased, held, txVars,
                   lastSetup, budgetVars>>

\* POOLS.lock().await of _setup.
SetupLock(t) ==
    /\ pc[t] = "su_lock"
    /\ CanLock
    /\ lockHolder' = t
    /\ pc' = [pc EXCEPT ![t] = "su_insert"]
    /\ ret' = NoRet
    /\ UNCHANGED <<POOLS, poolVars, leased, held, txVars, callVars,
                   lastSetup, budgetVars>>

\* map.insert(which_database, pool); Ok(()) -- the guard is dropped.
SetupInsert(t) ==
    /\ pc[t] = "su_insert"
    /\ POOLS' = MapInsert(POOLS, arg[t], pend[t])
    /\ lastSetup' = [lastSetup EXCEPT ![arg[t]] = pend[t]]
    /\ lockHolder' = NoTask
    /\ Return(t)
    /\ ret' = Ret("setup", "Ok", TRUE, 0)
    /\ UNCHANGED <<poolVars, leased, held, txVars, budgetVars>>

(***************************************************************************)
(* The transaction helper and the query executor, on a handle the task     *)
(* owns.                                                                   *)
(***************************************************************************)

\* Mutant of AfterCommit: a failed commit leaves the Transaction usable.
AfterCommitKeep(ok) == IF ok THEN "Committed" ELSE "Begun"

\* What is left of the Transaction value after commit(trans): it is moved
\* into the call, so it is gone whether the driver commits or fails (a
\* Transaction dropped while open is rolled back by the driver).
AfterCommit(ok) == IF ok THEN "Committed" ELSE "Dropped"

\* The same for rollback(trans).
AfterRollback(ok) == IF ok THEN "RolledBack" ELSE "Dropped"

\* Mutant of Borrowed: a transaction does not borrow its connection.
BorrowedNever(h) == FALSE

\* Transaction<'q> holds the &'q mut borrow of its connection until it is
\* moved into commit or rollback, or dropped: meanwhile the connection can
\* be neither dropped nor borrowed again.
Borrowed(h) == tx[h] = "Begun"

\* get_trans(&mut conn): conn.begin().await.  The Transaction borrows the
\* handle mutably, so no second one is begun while it lives.
GetTrans(t, h, ok) ==
    /\ pc[t] = "idle"
    /\ h \in held[t]
    /\ ~Borrowed(h)
    /\ nTx < MaxTx
    /\ nTx' = nTx + 1
    /\ IF ok
       THEN /\ tx' = [tx EXCEPT ![h] = "Begun"]
            /\ txCalls' = [txCalls EXCEPT ![h] = 0]
            /\ ret' = Ret("get_trans", "Ok", TRUE, 0)
       ELSE /\ ret' = Ret("get_trans", ErrGetTrans, TRUE, 1)
            /\ UNCHANGED txVars
    /\ UNCHANGED <<POOLS, lockHolder, poolVars, leased, held, pc, callVars,
                   lastSetup, nCalls>>

\* commit(trans).
Commit(t, h, ok) ==
    /\ pc[t] = "idle"
    /\ h \in held[t]
    /\ tx[h] = "Begun"
    /\ tx' = [tx EXCEPT ![h] = AfterCommit(ok)]
    /\ txCalls' = [txCalls EXCEPT ![h] = @ + 1]
    /\ ret' = Ret("commit", IF ok THEN "Ok" ELSE ErrCommit, TRUE,
                  IF ok THEN 0 ELSE 1)
    /\ UNCHANGED <<POOLS, lockHolder, poolVars, leased, held, pc, callVars,
                   lastSetup, budgetVars>>

\* rollback(trans).
Rollback(t, h, ok) ==
    /\ pc[t] = "idle"
    /\ h \in held[t]
    /\ tx[h] = "Begun"
    /\ tx' = [tx EXCEPT ![h] = AfterRollback(ok)]
    /\ txCalls' = [txCalls EXCEPT ![h] = @ + 1]
    /\ ret' = Ret("rollback", IF ok THEN "Ok" ELSE ErrRollback, TRUE,
                  IF ok THEN 0 ELSE 1)
    /\ UNCHANGED <<POOLS, lockHolder, poolVars, leased, held, pc, callVars,
                   lastSetup, budgetVars>>

\* The Transaction goes out of scope without commit or rollback.
DropTrans(t, h) ==
    /\ pc[t] = "idle"
    /\ h \in held[t]
    /\ tx[h] = "Begun"
    /\ tx' = [tx EXCEPT ![h] = "Dropped"]
    /\ ret' = NoRet
    /\ UNCHANGED <<POOLS, lockHolder, poolVars, leased, held, txCalls, pc,
                   callVars, lastSetup, budgetVars>>

\* exec(&mut conn, sql): sql.execute(..).await.
Exec(t, h, ok) ==
    /\ pc[t] = "idle"
    /\ h \in held[t]
    /\ ret' = Ret("exec", IF ok THEN "Ok" ELSE ErrExec, TRUE,
                  IF ok THEN 0 ELSE 1)
    /\ UNCHANGED <<POOLS, lockHolder, poolVars, leased, held, txVars, pc,
                   callVars, lastSetup, budgetVars>>

\* What the driver does with a statement: it fails (ok = FALSE), or it
\* yields n rows.
Outcomes ==
    {[ok |-> FALSE, n |-> 0]} \cup {[ok |-> TRUE, n |-> k] : k \in 0..MaxRows}

\* The rows of an outcome, decoded, in the driver's order.
Rows(o) == [i \in 1..o.n |-> i]

\* A driver call that failed, and one that returned out.
Failed == [ok |-> FALSE, out |-> <<>>]
Fetched(out) == [ok |-> TRUE, out |-> out]

\* fetch_all: every row.
FetchAll(o) == IF ~o.ok THEN Failed ELSE Fetched(Rows(o))

\* Mutant of FetchOne: more than one row is an error as well.
FetchOneExactly(o) ==
    IF ~o.ok \/ o.n # 1 THEN Failed ELSE Fetched(<<Head(Rows(o))>>)

\* fetch_one: the first row; RowNotFound if the statement yields none.
FetchOne(o) ==
    IF ~o.ok \/ o.n = 0 THEN Failed ELSE Fetched(<<Head(Rows(o))>>)

\* Mutant of FetchOptional: more than one row is an error.
FetchOptionalAtMostOne(o) ==
    IF ~o.ok \/ o.n > 1 THEN Failed
    ELSE Fetched(IF o.n = 0 THEN <<>> ELSE <<Head(Rows(o))>>)

\* fetch_optional: the first row if there is one, None otherwise.
FetchOptional(o) ==
    IF ~o.ok THEN Failed
    ELSE Fetched(IF o.n = 0 THEN <<>> ELSE <<Head(Rows(o))>>)

\* A query-executor function returns what the driver call r gave for the
\* statement o: Ok with the rows, or the error, logged once, under the
\* function's name.  The call counts against MaxCalls.
ExecReturn(t, h, op, err, o, r) ==
    /\ pc[t] = "idle"
    /\ h \in held[t]
    /\ nCalls < MaxCalls
    /\ nCalls' = nCalls + 1
    /\ ret' = IF r.ok THEN RetOut(op, "Ok", TRUE, 0, r.out, o)
                      ELSE RetOut(op, err, TRUE, 1, <<>>, o)
    /\ UNCHANGED <<POOLS, lockHolder, poolVars, leased, held, txVars, pc,
                   callVars, lastSetup, nTx>>

\* exec_arr(&mut conn, sql_as): sql_as.fetch_all(..).await.
ExecArr(t, h, o) == ExecReturn(t, h, "exec_arr", ErrExecArr, o, FetchAll(o))

\* exec_one(&mut conn, sql_as): sql_as.fetch_one(..).await.
ExecOne(t, h, o) == ExecReturn(t, h, "exec_one", ErrExecOne, o, FetchOne(o))

\* exec_opt_one(&mut conn, sql_as): sql_as.fetch_optional(..).await.
ExecOptOne(t, h, o) ==
    ExecReturn(t, h, "exec_opt_one", ErrExecOptOne, o, FetchOptional(o))

\* Mutant of ReleaseSlot: a connection whose Transaction was dropped open is
\* not given back.
ReleaseSlotLeak(ls, h) ==
    IF tx[h] = "Dropped" THEN ls ELSE [ls EXCEPT ![h[1]] = @ \ {h[2]}]

\* The connection of a dropped PoolConnection goes back to its pool.
ReleaseSlot(ls, h) == [ls EXCEPT ![h[1]] = @ \ {h[2]}]

\* The holder's scope ends: the PoolConnection is dropped.  A Transaction
\* borrowing it has ended before.
DropConn(t, h) ==
    /\ pc[t] = "idle"
    /\ h \in held[t]
    /\ ~Borrowed(h)
    /\ leased' = ReleaseSlot(leased, h)
    /\ held' = [held EXCEPT ![t] = @ \ {h}]
    /\ ret' = NoRet
    /\ UNCHANGED <<POOLS, lockHolder, poolVars, txVars, pc, callVars,
                   lastSetup, budgetVars>>

\* Every handle of hs is dropped.
RECURSIVE ReleaseAll(_, _)
ReleaseAll(ls, hs) ==
    IF hs = {} THEN ls
    ELSE LET h == CHOOSE x \in hs : TRUE
         IN  ReleaseAll(ReleaseSlot(ls, h), hs \ {h})

\* The task is cancelled while suspended in an await: the future it was
\* polling is dropped, and with it the guard of POOLS if the future held
\* it, the Transactions and the handles of the task.
TaskCancel(t) ==
    /\ \/ pc[t] \in {"gc_lock", "acquire", "wait", "connect", "su_lock"}
       \/ pc[t] = "idle" /\ held[t] # {}
    /\ lockHolder' = IF lockHolder = t THEN NoTask ELSE lockHolder
    /\ Return(t)
    /\ leased' = ReleaseAll(leased, held[t])
    /\ held' = [held EXCEPT ![t] = {}]
    /\ tx' = [h \in Handles |->
                IF h \in held[t] /\ tx[h] = "Begun" THEN "Dropped" ELSE tx[h]]
    /\ ret' = NoRet
    /\ UNCHANGED <<POOLS, poolVars, txCalls, lastSetup, budgetVars>>

Next ==
    \/ \E t \in Tasks, d \in DBs : GetConnCall(t, d)
    \/ \E t \in Tasks : GetConnLock(t)
    \/ \E t \in Tasks : AcquireSuspend(t)
    \/ \E t \in Tasks : AcquireGrant(t)
    \/ \E t \in Tasks : AcquireErr(t)
    \/ \E t \in Tasks, d \in DBs, e \in Envs : SetupCall(t, d, e)
    \/ \E t \in Tasks : ConnectOk(t)
    \/ \E t \in Tasks : ConnectErr(t)
    \/ \E t \in Tasks : SetupLock(t)
    \/ \E t \in Tasks : SetupInsert(t)
    \/ \E t \in Tasks, h \in Handles, ok \in BOOLEAN : GetTrans(t, h, ok)
    \/ \E t \in Tasks, h \in Handles, ok \in BOOLEAN : Commit(t, h, ok)
    \/ \E t \in Tasks, h \in Handles, ok \in BOOLEAN : Rollback(t, h, ok)
    \/ \E t \in Tasks, h \in Handles : DropTrans(t, h)
    \/ \E t \in Tasks, h \in Handles, ok \in BOOLEAN : Exec(t, h, ok)
    \/ \E t \in Tasks, h \in Handles, o \in Outcomes : ExecArr(t, h, o)
    \/ \E t \in Tasks, h \in Handles, o \in Outcomes : ExecOne(t, h, o)
    \/ \E t \in Tasks, h \in Handles, o \in Outcomes : ExecOptOne(t, h, o)
    \/ \E t \in Tasks, h \in Handles : DropConn(t, h)
    \/ \E t \in Tasks : TaskCancel(t)

Spec == Init /\ [][Next]_vars

\* The pool wakes a suspended acquire when a connection is released and the
\* runtime polls a woken task: a grant that stays possible is taken.
LiveSpec == Spec /\ \A t \in Tasks : WF_vars(AcquireGrant(t))

\* POOLS.lock().await of task t completes.
LockStep(t) == GetConnLock(t) \/ SetupLock(t)

\* The task that holds the guard runs on: pool.acquire() ends, with a
\* connection or at its acquire timeout, and the insert of _setup runs.
GuardStep(t) == AcquireGrant(t) \/ AcquireErr(t) \/ SetupInsert(t)

\* The scheduling the runtime gives: the holder of the guard runs on, and
\* the tokio Mutex serves its waiters in turn, so that a waiter is not
\* passed over forever.
FairSpec ==
    Spec /\ \A t \in Tasks : WF_vars(GuardStep(t)) /\ SF_vars(LockStep(t))

(***************************************************************************)
(* The claims.                                                             *)
(***************************************************************************)

\* The handles of pool p that tasks own, one element per owner and handle.
Outstanding(p) == {x \in Tasks \X Handles : x[2] \in held[x[1]] /\ x[2][1] = p}

\* The handles obtained through get_connection(d), of whichever pool was
\* registered under d when they were leased.
OutstandingOfDb(d) ==
    {x \in Tasks \X Handles : x[2] \in held[x[1]] /\ poolDb[x[2][1]] = d}

\* C1: a _get_conn on an identifier that has no pool in the registry, once
\* it has the lock, returns Error::Database("_get_conn failed"), a value
\* that differs from the one a failed acquisition returns, in the same
\* step: no connection is leased, no pool or network I/O is done and the
\* lock is not kept -- whatever pools other identifiers have.  (Only a
\* cancellation ends the call otherwise, returning nothing.)
C1_AbsentFailsWithoutIO ==
    [][\A t \in Tasks :
         (pc[t] = "gc_lock" /\ POOLS[arg[t]] = NoPool /\ pc'[t] # "gc_lock")
         => /\ pc'[t] = "idle"
            /\ ret'.val # ErrGetConnAcquire
            /\ \/ ret' = NoRet
               \/ /\ ret' = Ret("get_conn", ErrGetConnAbsent, FALSE, 0)
                  /\ UNCHANGED <<leased, held, lockHolder, poolVars>>]_vars

\* C1 witness: the absent identifier was refused while another identifier
\* has a pool.
C1_Witness ==
    /\ ret = Ret("get_conn", ErrGetConnAbsent, FALSE, 0)
    /\ \E d \in DBs : POOLS[d] # NoPool

\* C2 as stated: the handles obtained through get_connection(d) and not
\* yet released never exceed the limit of the pool registered under d.
C2_PerIdentifierBound ==
    \A d \in DBs :
        POOLS[d] # NoPool => Cardinality(OutstandingOfDb(d)) <= poolMax[POOLS[d]]

\* C2 amended: the handles leased from one pool and not yet released never
\* exceed the max_connections that pool was built with, so an acquire that
\* finds max handles of the pool outstanding returns none before a release.
C2_PerPoolBound ==
    \A p \in PoolIds : Cardinality(Outstanding(p)) <= poolMax[p]

\* C2 witness: a pool has all its connections leased and a _get_conn on it
\* is suspended.
C2_Witness ==
    \E t \in Tasks :
        /\ pc[t] = "wait"
        /\ Cardinality(Outstanding(pend[t])) = poolMax[pend[t]]
        /\ poolMax[pend[t]] = MaxConnects

\* C3: a _get_conn suspended on an exhausted pool leaves its wait once a
\* connection of that pool has been released (with a handle, unless the
\* acquisition timeout or a cancellation ends it first), and an idle task
\* can drop a handle of that pool while the waiter is suspended: the drop
\* does not need the lock of the registry.
C3_WaiterServedAfterRelease ==
    /\ \A t \in Tasks :
          (pc[t] = "wait" /\ leased[pend[t]] # {c \in Conns : c <= poolMax[pend[t]]})
          ~> (pc[t] # "wait")
    /\ [](\A t, u \in Tasks : \A h \in held[u] :
            (pc[t] = "wait" /\ h[1] = pend[t] /\ pc[u] = "idle" /\ tx[h] # "Begun")
            => ENABLED DropConn(u, h))

\* C3 witness: a task is suspended on a pool and a connection of the pool
\* has just been released by its holder.
C3_Witness ==
    \E t \in Tasks :
        /\ pc[t] = "wait"
        /\ poolMax[pend[t]] = MaxConnects
        /\ Cardinality(leased[pend[t]]) = MaxConnects - 1
        /\ lockHolder = t

\* C4 as stated: while a _get_conn is suspended on an exhausted pool, another
\* task that has called _get_conn on an identifier whose pool has a free
\* connection, or whose _setup has built its pool, can take its next step
\* (the lock of the registry) without a release or a timeout.
C4_WaiterSuspendsOnlyItself ==
    \A t, u \in Tasks :
        (pc[t] = "wait" /\ u # t)
        => /\ (pc[u] = "gc_lock" /\ POOLS[arg[u]] # NoPool
                  /\ POOLS[arg[u]] # pend[t] /\ Free(POOLS[arg[u]]) # {})
               => ENABLED GetConnLock(u)
           /\ pc[u] = "su_lock" => ENABLED SetupLock(u)

\* C5: a _get_conn that returns a handle leases it from the pool built by
\* the latest _setup of its identifier that returned Ok.
C5_LeaseFromLatestSetup ==
    [][\A t \in Tasks :
         (pc[t] \in {"acquire", "wait"} /\ ret' = Ret("get_conn", "Ok", TRUE, 0))
         => \E c \in Conns :
               held'[t] = held[t] \cup {<<lastSetup[arg[t]], c>>}]_vars

\* C5 witness: the identifier was set up twice with different limits, a
\* handle of the first pool is still out and a handle of the second pool
\* has been leased.
C5_Witness ==
    \E d \in DBs : \E t, u \in Tasks :
        /\ poolDb[1] = d /\ poolDb[2] = d /\ poolMax[1] # poolMax[2]
        /\ lastSetup[d] = 2
        /\ \E c \in Conns : <<1, c>> \in held[t]
        /\ \E c \in Conns : <<2, c>> \in held[u]
        /\ ret = Ret("get_conn", "Ok", TRUE, 0)

\* C6: a _setup that fails leaves the registry as it was, and a failed
\* read of a configuration key returns before the pool is built or any
\* network I/O is done.
C6_FailedSetupKeepsRegistry ==
    [][/\ nCalls' # nCalls
            => \A t \in Tasks, d \in DBs, e \in {x \in Envs : x.bad # 0} :
                  SetupCall(t, d, e)
                  => /\ ret' = Ret("setup", ErrEnv, FALSE, 0)
                     /\ UNCHANGED <<POOLS, poolVars, leased, held, pc>>
       /\ (ret'.op = "setup" /\ ret'.val # "Ok") => POOLS' = POOLS]_vars

\* C6 witness: a _setup has failed on a configuration key while both
\* identifiers have a pool.
C6_Witness ==
    /\ ret = Ret("setup", ErrEnv, FALSE, 0)
    /\ \A d \in DBs : POOLS[d] # NoPool

\* C7: a Transaction is the subject of at most one commit or rollback
\* call, made while it is Begun; the call ends it whether it succeeds or
\* fails, and an ended Transaction changes no more (the connection gets a
\* new Transaction or a new lease).
C7_TransactionEndsOnce ==
    /\ [](\A h \in Handles : txCalls[h] <= 1)
    /\ [][\A h \in Handles :
            /\ txCalls'[h] > txCalls[h]
                 => /\ tx[h] = "Begun" /\ txCalls[h] = 0
                    /\ tx'[h] \in {"Committed", "RolledBack", "Dropped"}
            /\ (tx[h] \in {"Committed", "RolledBack", "Dropped"} /\ tx'[h] # tx[h])
                 => tx'[h] \in {"Begun", "None"} /\ txCalls'[h] = 0]_vars

\* C7 witness: a commit or rollback has failed and the Transaction is gone
\* after that one call.
C7_Witness ==
    /\ ret.op \in {"commit", "rollback"} /\ ret.val # "Ok"
    /\ \E h \in Handles : tx[h] = "Dropped" /\ txCalls[h] = 1

\* C8: at most one task is between taking the lock of the registry and
\* dropping its guard, in _get_conn (lookup and acquire) or in _setup
\* (insert).
C8_RegistryMutex ==
    Cardinality({t \in Tasks : pc[t] \in {"acquire", "wait", "su_insert"}}) <= 1

\* C8 witness: one task is inside and another is held back at the lock.
C8_Witness ==
    \E t, u \in Tasks :
        /\ pc[t] = "su_insert"
        /\ pc[u] \in {"gc_lock", "su_lock"}

\* C9: no connection is owned through the handles of two tasks, and the
\* connection a _get_conn returns is one no task owns at that moment.
C9_ExclusiveLease ==
    /\ [](\A t, u \in Tasks : t # u => held[t] \cap held[u] = {})
    /\ [][\A t \in Tasks :
            (pc[t] \in {"acquire", "wait"} /\ ret' = Ret("get_conn", "Ok", TRUE, 0))
            => \E h \in Handles :
                  /\ \A u \in Tasks : h \notin held[u]
                  /\ held'[t] = held[t] \cup {h}]_vars

\* C9 witness: two tasks own different connections of one pool.
C9_Witness ==
    \E t, u \in Tasks : \E h \in held[t], g \in held[u] :
        t # u /\ h[1] = g[1] /\ h[2] # g[2]

\* C10: the connections a pool counts as leased are those a task owns a
\* handle of: whatever failed on a handle, dropping it gives the
\* connection back.
C10_NoLostConnection ==
    \A p \in PoolIds :
        leased[p] = {c \in Conns : \E t \in Tasks : <<p, c>> \in held[t]}

\* C10 witness: a connection whose Transaction was dropped open (a failed
\* commit or rollback, a cancelled holder) is free again.
C10_Witness ==
    \E h \in Handles :
        /\ tx[h] = "Dropped"
        /\ h[2] \in Free(h[1])

\* The latest call was op, on a statement the driver ran without error.
Ran(op) == ret.op = op /\ ret.stmt.ok

C13_EveryFailureLoggedOnce ==
    (ret.op # "none" /\ ret.val # "Ok") => ret.logged = 1

\* C14: a call that waits for the registry lock gets it, and a
\* get_connection that waits in the pool returns (with a handle, or with
\* the acquire error at the timeout): every call that waits for the lock
\* or for a connection ends, no task waits forever.
C14_NoTaskWaitsForever ==
    \A t \in Tasks :
        (pc[t] \in {"gc_lock", "acquire", "wait", "su_lock", "su_insert"})
            ~> (pc[t] = "idle")

\* C14 witness: a get_connection has returned the acquire error while
\* another call waits for the registry lock.
C14_Witness ==
    /\ ret = Ret("get_conn", ErrGetConnAcquire, TRUE, 1)
    /\ \E t \in Tasks : pc[t] \in {"gc_lock", "su_lock"}

C16_RegistryOnlyGrows ==
    [][/\ \A d \in DBs : POOLS[d] # NoPool => POOLS'[d] # NoPool
       /\ ret' = Ret("get_conn", ErrGetConnAbsent, FALSE, 0)
          => \E t \in Tasks :
                /\ pc[t] = "gc_lock" /\ pc'[t] = "idle"
                /\ POOLS[arg[t]] = NoPool]_vars

\* C16 witness: after the setup of a second identifier, with both
\* registered, a get_connection has returned a handle.
C16_Witness ==
    /\ \A d \in DBs : POOLS[d] # NoPool
    /\ ret = Ret("get_conn", "Ok", TRUE, 0)

\* C17: every pool in the registry is an established one, built for its
\* identifier; an identifier gets its pool only in the insert step of a
\* setup of that identifier; and a get_connection that looks up an
\* identifier with no pool, a setup of it in flight or not, returns the
\* no-pool error in that step instead of entering the pool.
C17_VisibleOnlyAtInsert ==
    /\ [](\A d \in DBs :
            POOLS[d] # NoPool
            => /\ POOLS[d] <= nPools
               /\ poolDb[POOLS[d]] = d
               /\ poolMax[POOLS[d]] >= 1)
    /\ [][/\ \A d \in DBs :
               POOLS'[d] # POOLS[d]
               => \E t \in Tasks :
                     /\ pc[t] = "su_insert" /\ pc'[t] = "idle"
                     /\ arg[t] = d /\ POOLS'[d] = pend[t]
          /\ \A t \in Tasks :
               (pc[t] = "gc_lock" /\ pc'[t] # "gc_lock"
                    /\ POOLS[arg[t]] = NoPool)
               => /\ pc'[t] = "idle"
                  /\ ret' \in {Ret("get_conn", ErrGetConnAbsent, FALSE, 0),
                               NoRet}]_vars

\* C17 witness: while the first setup of an identifier has its pool
\* connected and not yet inserted, a get_connection of that identifier (the
\* other one has a pool) has returned the no-pool error.
C17_Witness ==
    /\ ret = Ret("get_conn", ErrGetConnAbsent, FALSE, 0)
    /\ \E t \in Tasks :
          /\ pc[t] \in {"su_lock", "su_insert"}
          /\ POOLS[arg[t]] = NoPool
          /\ \A d \in DBs \ {arg[t]} : POOLS[d] # NoPool

\* C18: the insert of a setup of D makes its own pool the one pool of D,
\* whatever pool D had and whichever setup was called or connected first,
\* and leaves the other identifiers alone; a get_connection of D is served
\* by the pool the registry holds for D, that of the latest insert, and
\* by no other pool built for D.
C18_LastInsertWins ==
    /\ [](\A t \in Tasks :
            pc[t] \in {"acquire", "wait"}
            => /\ pend[t] = POOLS[arg[t]]
               /\ pend[t] = lastSetup[arg[t]])
    /\ [][\A t \in Tasks :
            (pc[t] = "su_insert" /\ pc'[t] = "idle")
            => /\ POOLS'[arg[t]] = pend[t]
               /\ \A d \in DBs \ {arg[t]} : POOLS'[d] = POOLS[d]]_vars

\* C18 witness: two setups of one identifier have both inserted, and the
\* registry holds the pool that was connected first and inserted last,
\* while a handle of the other pool is still out.
C18_Witness ==
    /\ ret = Ret("setup", "Ok", TRUE, 0)
    /\ \E d \in DBs :
          POOLS[d] = 1 /\ nPools = 2 /\ poolDb[2] = d /\ leased[2] # {}

\* C19: a setup that is connecting, or has connected and not yet locked,
\* does not hold the registry lock, and it keeps no other task from the
\* lock: unless a task other than the setup holds it, every other task
\* that is at POOLS.lock(), in a get_connection or in a setup, can take it.
C19_ConnectOutsideLock ==
    \A t \in Tasks :
        pc[t] \in {"connect", "su_lock"}
        => /\ lockHolder # t
           /\ (\A v \in Tasks \ {t} : lockHolder # v)
              => \A u \in Tasks \ {t} :
                    /\ pc[u] = "gc_lock" => ENABLED GetConnLock(u)
                    /\ pc[u] = "su_lock" => ENABLED SetupLock(u)

\* C19 witness: while a setup is connecting, a get_connection of another
\* task has taken the lock and returned a handle.
C19_Witness ==
    /\ ret = Ret("get_conn", "Ok", TRUE, 0)
    /\ \E t \in Tasks : pc[t] = "connect"

\* C20: the insert that replaces the pool of an identifier releases and
\* revokes no handle, and the handles of the replaced pool do not count
\* against the new one: a get_connection is granted whenever fewer handles
\* of the pool it leases from are out than that pool's limit.
C20_ReplacedPoolKeepsItsHandles ==
    /\ [](\A t \in Tasks :
            (pc[t] \in {"acquire", "wait"}
                /\ Cardinality(Outstanding(pend[t])) < poolMax[pend[t]])
            => ENABLED AcquireGrant(t))
    /\ [][\A t \in Tasks :
            (pc[t] = "su_insert" /\ pc'[t] = "idle")
            => held' = held /\ leased' = leased /\ tx' = tx]_vars

\* C20 witness: both pools were built for one identifier, and every
\* connection of the replaced pool and of the new pool is out: the handles
\* out for the identifier number the old limit plus the new limit.
C20_Witness ==
    \E d \in DBs :
        /\ nPools = 2 /\ poolDb[1] = d /\ poolDb[2] = d
        /\ POOLS[d] # NoPool
        /\ Cardinality(OutstandingOfDb(d)) = poolMax[1] + poolMax[2]

====
